---- MODULE Spec2Model ----
(***************************************************************************)
(* Model of scripts/fetch_weather.py: one run of main() fetches a reading, *)
(* builds a markdown entry and a dedup key, appends the entry to           *)
(* weather.md unless the key is found in it, and rewrites art/weather.svg. *)
(*                                                                         *)
(* Text is modelled as TLA+ strings, built and searched as the code builds *)
(* and searches it.  The non-ASCII glyphs of the source are transliterated *)
(* (em dash "-", degree sign "deg", bullet "*", emoji "[sun]" ...), and    *)
(* a JSON number is an integer count of tenths printed as Python prints a  *)
(* float ("24.5").                                                         *)
(***************************************************************************)
EXTENDS Integers, Sequences, FiniteSets, TLC

VARIABLES
    pc,        \* position of main(): idle, fetched, built, checked, logged, done
    data,      \* the value fetch_weather() returned to this run
    key,       \* dedup key returned by build_md_entry
    entry,     \* block returned by build_md_entry
    found,     \* result of already_exists(key)
    readOk,    \* whether OUT_MD.read_text succeeded in already_exists
    md,        \* weather.md on disk: [exists, txt]
    svg,       \* art/weather.svg on disk: [exists, txt]
    exit,      \* "running", "0", "2", or "exception" (uncaught fault)
    runs,      \* number of runs started
    md0,       \* weather.md as it was when the current run started
    svg0,      \* art/weather.svg as it was when the current run started
    wcode,     \* classifier input (classifier specification)
    cls        \* classifier output (classifier specification)

vars == <<pc, data, key, entry, found, readOk, md, svg, exit, runs, md0, svg0, wcode, cls>>

\* ------------------------------------------------------------------ bounds

MaxRuns == 3
NegCodes == 3
OverCodes == 3

\* ------------------------------------------------------------- JSON values

Missing == [k |-> "missing", v |-> 0]
Null == [k |-> "null", v |-> 0]
Num(n) == [k |-> "num", v |-> n]

TMissing == [k |-> "missing", s |-> ""]
TNull == [k |-> "null", s |-> ""]
TStr(t) == [k |-> "str", s |-> t]

AMissing == [k |-> "missing", a |-> <<>>]
ANull == [k |-> "null", a |-> <<>>]
Arr(xs) == [k |-> "arr", a |-> xs]

Cw(t, temp, wind, code) ==
    [k |-> "obj", time |-> t, temperature |-> temp, windspeed |-> wind, weathercode |-> code]
EmptyCw == Cw(TMissing, Missing, Missing, Missing)
CwMissing == [EmptyCw EXCEPT !.k = "missing"]
CwNull == [EmptyCw EXCEPT !.k = "null"]

Daily(mx, mn, pr) ==
    [k |-> "obj", temperature_2m_max |-> mx, temperature_2m_min |-> mn, precipitation_sum |-> pr]
EmptyDaily == Daily(AMissing, AMissing, AMissing)
DailyMissing == [EmptyDaily EXCEPT !.k = "missing"]
DailyNull == [EmptyDaily EXCEPT !.k = "null"]

\* try_fetch_json returns None on any exception; "{}" is a parsed empty object.
NoneData == [k |-> "none", cw |-> CwMissing, daily |-> DailyMissing]
EmptyData == [k |-> "empty", cw |-> CwMissing, daily |-> DailyMissing]
Obj(c, d) == [k |-> "obj", cw |-> c, daily |-> d]

\* ------------------------------------------------------------ Python text

Min(a, b) == IF a < b THEN a ELSE b

\* s[a:b]
Slice(s, a, b) ==
    IF a >= Min(b, Len(s)) THEN "" ELSE SubSeq(s, a + 1, Min(b, Len(s)))

\* s[a:]
SliceFrom(s, a) == Slice(s, a, Len(s))

\* k in txt
Contains(txt, k) ==
    \E i \in 1..(Len(txt) - Len(k) + 1) : SubSeq(txt, i, i + Len(k) - 1) = k

RECURSIVE ReplaceT(_)
\* s.replace("T", " ")
ReplaceT(s) ==
    IF s = "" THEN ""
    ELSE (IF SubSeq(s, 1, 1) = "T" THEN " " ELSE SubSeq(s, 1, 1))
         \o ReplaceT(SliceFrom(s, 1))

\* str(x) of a float given in tenths
FmtNum(n) ==
    LET a == IF n < 0 THEN 0 - n ELSE n
    IN (IF n < 0 THEN "-" ELSE "") \o ToString(a \div 10) \o "." \o ToString(a % 10)

\* str(x) of a JSON scalar or None
Str(x) == IF x.k = "num" THEN FmtNum(x.v) ELSE "None"

RECURSIVE JoinBlank(_)
\* "\n\n".join(lines)
JoinBlank(lines) ==
    IF Len(lines) = 0 THEN ""
    ELSE IF Len(lines) = 1 THEN lines[1]
    ELSE lines[1] \o "\n\n" \o JoinBlank(Tail(lines))

\* --------------------------------------------------------- the classifier

weather_code_to_icon_and_text_Mut(code) ==
    IF code.k # "num" THEN <<"[?]", "Unknown">>
    ELSE IF code.v = 0 THEN <<"[sun]", "Clear sky">>
    ELSE IF 1 <= code.v /\ code.v <= 3 THEN <<"[sun-cloud]", "Partly cloudy">>
    ELSE IF 45 <= code.v /\ code.v < 48 THEN <<"[fog]", "Fog">>
    ELSE IF (51 <= code.v /\ code.v <= 67) \/ (80 <= code.v /\ code.v <= 82)
         THEN <<"[rain]", "Rain">>
    ELSE IF (71 <= code.v /\ code.v <= 77) \/ (85 <= code.v /\ code.v <= 86)
         THEN <<"[snow]", "Snow">>
    ELSE IF 95 <= code.v /\ code.v <= 99 THEN <<"[storm]", "Thunderstorm">>
    ELSE <<"[cloud]", "Cloudy">>

\* code is a JSON scalar; a missing key and a JSON null both reach it as None.
\* int(code) is the identity on the integer codes modelled here.
weather_code_to_icon_and_text(code) ==
    IF code.k # "num" THEN <<"[?]", "Unknown">>
    ELSE IF code.v = 0 THEN <<"[sun]", "Clear sky">>
    ELSE IF 1 <= code.v /\ code.v <= 3 THEN <<"[sun-cloud]", "Partly cloudy">>
    ELSE IF 45 <= code.v /\ code.v <= 48 THEN <<"[fog]", "Fog">>
    ELSE IF (51 <= code.v /\ code.v <= 67) \/ (80 <= code.v /\ code.v <= 82)
         THEN <<"[rain]", "Rain">>
    ELSE IF (71 <= code.v /\ code.v <= 77) \/ (85 <= code.v /\ code.v <= 86)
         THEN <<"[snow]", "Snow">>
    ELSE IF 95 <= code.v /\ code.v <= 99 THEN <<"[storm]", "Thunderstorm">>
    ELSE <<"[cloud]", "Cloudy">>

\* ------------------------------------------------------ reading the fields

\* "if not data": None and the empty object are both falsy.
NotData(d) == d.k \in {"none", "empty"}

\* data.get("current_weather", {})
GetCw(d) == IF d.cw.k = "missing" THEN EmptyCw ELSE d.cw

\* data.get("daily", {})
GetDaily(d) == IF d.daily.k = "missing" THEN EmptyDaily ELSE d.daily

\* cw.get(name): a missing key reads as None
GetOrNone(x) == IF x.k = "missing" THEN Null ELSE x

\* daily.get(name, [None])[0] on the array stored under the key:
\* a null value (None[0]) and an empty array ([][0]) raise.
Index0(arr) ==
    IF arr.k = "missing" THEN [ok |-> TRUE, val |-> Null]
    ELSE IF arr.k = "null" \/ Len(arr.a) = 0 THEN [ok |-> FALSE, val |-> Null]
    ELSE [ok |-> TRUE, val |-> arr.a[1]]

\* The three reads of build_md_entry inside one try: the first read that
\* raises leaves its own and every later variable at None.
TryDaily(daily) ==
    LET r1 == Index0(daily.temperature_2m_max)
        r2 == Index0(daily.temperature_2m_min)
        r3 == Index0(daily.precipitation_sum)
        ok0 == daily.k # "null"
        ok1 == ok0 /\ r1.ok
        ok2 == ok1 /\ r2.ok
        ok3 == ok2 /\ r3.ok
    IN [tmax |-> IF ok1 THEN r1.val ELSE Null,
        tmin |-> IF ok2 THEN r2.val ELSE Null,
        precip |-> IF ok3 THEN r3.val ELSE Null]

\* ------------------------------------------------------ build_md_entry

Header(date_part, time_part) ==
    "**" \o date_part \o " " \o time_part \o " - Alamar, Havana (Cuba)**"

NowLine(temp_now, time_part) ==
    IF temp_now.k # "null"
    THEN <<"Now: " \o Str(temp_now) \o " degC (measured at " \o time_part \o ")">>
    ELSE <<>>

MaxMinLine_Mut(tmax, tmin) ==
    IF tmax.k # "null" \/ tmin.k # "null"
    THEN <<"Max/Min today: " \o Str(tmax) \o " degC / " \o Str(tmin) \o " degC">>
    ELSE <<>>

MaxMinLine(tmax, tmin) ==
    IF tmax.k # "null" /\ tmin.k # "null"
    THEN <<"Max/Min today: " \o Str(tmax) \o " degC / " \o Str(tmin) \o " degC">>
    ELSE <<>>

PrecipLine(precip) ==
    IF precip.k # "null"
    THEN <<"Precipitation (today): " \o Str(precip) \o " mm">>
    ELSE <<>>

WindLine(wind) ==
    IF wind.k # "null" THEN <<"Wind speed: " \o Str(wind) \o " km/h">> ELSE <<>>

Footer == "_Source: Open-Meteo API_"

Delimiter == "\n\n---\n\n"

NoEntry == [fault |-> FALSE, none |-> TRUE, key |-> "", entry |-> ""]
EntryFault == [fault |-> TRUE, none |-> FALSE, key |-> "", entry |-> ""]

\* now is datetime.now(timezone.utc).isoformat(), read only when the reading
\* has no usable time.
build_md_entry(d, now) ==
    IF NotData(d) THEN NoEntry
    ELSE IF d.cw.k = "null" THEN EntryFault
    ELSE
    LET cw == GetCw(d)
        daily == GetDaily(d)
        now_time == IF cw.time.k = "str" /\ cw.time.s # "" THEN cw.time.s ELSE now
        date_part == Slice(now_time, 0, 10)
        time_part == IF Contains(now_time, "T") THEN SliceFrom(now_time, 11)
                     ELSE Slice(now_time, 11, 19)
        temp_now == GetOrNone(cw.temperature)
        wind == GetOrNone(cw.windspeed)
        code == GetOrNone(cw.weathercode)
        dl == TryDaily(daily)
        it == weather_code_to_icon_and_text(code)
        lines == <<Header(date_part, time_part), it[1] \o " " \o it[2]>>
                 \o NowLine(temp_now, time_part)
                 \o MaxMinLine(dl.tmax, dl.tmin)
                 \o PrecipLine(dl.precip)
                 \o WindLine(wind)
                 \o <<Footer>>
    IN [fault |-> FALSE, none |-> FALSE,
        key |-> date_part \o "T" \o time_part,
        entry |-> JoinBlank(lines) \o Delimiter]

\* ------------------------------------------------------------ the log file

already_exists_Mut(file, k, ok) ==
    IF ~file.exists THEN FALSE
    ELSE IF ok THEN file.txt = k
    ELSE FALSE

\* ok: whether read_text succeeded; a failed read is caught and answers False.
already_exists(file, k, ok) ==
    IF ~file.exists THEN FALSE
    ELSE IF ok THEN Contains(file.txt, k)
    ELSE FALSE

append_md_Overwrite(file, e) == [exists |-> TRUE, txt |-> e]

append_md_Separator(file, e) == [exists |-> TRUE, txt |-> file.txt \o e \o Delimiter]

\* open(OUT_MD, "a") creates the file when it is absent; its parent is the
\* working directory, which mkdir(exist_ok=True) leaves as it is.
append_md(file, e) == [exists |-> TRUE, txt |-> file.txt \o e]

\* ------------------------------------------------------------- build_svg

\* cw.get(name, "--") formatted into the template
StrOrDash(x) == IF x.k = "missing" THEN "--" ELSE Str(x)

NoSvg == [fault |-> FALSE, none |-> TRUE, txt |-> ""]
SvgFault == [fault |-> TRUE, none |-> FALSE, txt |-> ""]

\* The text nodes of the template, one per line; the fixed markup around
\* them (style, rects, coordinates) does not depend on the reading.
build_svg(d) ==
    IF NotData(d) THEN NoSvg
    ELSE IF d.cw.k = "null" \/ d.daily.k = "null" THEN SvgFault
    ELSE
    LET cw == GetCw(d)
        daily == GetDaily(d)
        r1 == Index0(daily.temperature_2m_max)
        r2 == Index0(daily.temperature_2m_min)
        r3 == Index0(daily.precipitation_sum)
        time_full == IF cw.time.k = "missing" THEN "" ELSE cw.time.s
        time_str == Slice(ReplaceT(time_full), 0, 19)
        it == weather_code_to_icon_and_text(GetOrNone(cw.weathercode))
        title == "Alamar, Havana - " \o time_str
        temp_text == StrOrDash(cw.temperature) \o " degC"
        extra == "Max " \o Str(r1.val) \o " degC / Min " \o Str(r2.val)
                 \o " degC  *  Precip " \o Str(r3.val) \o " mm"
    IN IF cw.time.k = "null" \/ ~r1.ok \/ ~r2.ok \/ ~r3.ok THEN SvgFault
       ELSE [fault |-> FALSE, none |-> FALSE,
             txt |-> "<svg>\n" \o title \o "\n" \o it[1] \o "\n" \o temp_text \o "\n"
                     \o it[2] \o " - Wind: " \o StrOrDash(cw.windspeed) \o " km/h\n"
                     \o extra \o "\nSource: Open-Meteo\n</svg>\n"]

\* ------------------------------------------------------------------ inputs

T1 == "2024-01-01T12:00"
T2 == "2024-01-01T12:15"
\* a time string without "T": the else branch of the time_part slice
TNoT == "2024-01-01 12:00"
\* datetime.now(timezone.utc).isoformat() during run n: the clock moves on
\* from one run to the next
Now(n) == "2024-01-02T03:04:0" \o ToString(n) \o ".678901+00:00"

FullDaily == Daily(Arr(<<Num(270)>>), Arr(<<Num(200)>>), Arr(<<Num(0)>>))
Full(t, temp) == Obj(Cw(TStr(t), Num(temp), Num(100), Num(0)), FullDaily)

\* Readings one run of main may fetch: complete readings (two of them
\* distinct with one timestamp), and readings with parts absent.
Readings ==
    { Full(T1, 245), Full(T1, 250), Full(T2, 231),
      Obj(Cw(TStr(T1), Num(245), Num(100), Num(0)),
          Daily(Arr(<<Num(270)>>), Arr(<<>>), Arr(<<Num(0)>>))),
      Obj(Cw(TNull, Num(245), Num(100), Num(95)), FullDaily),
      Obj(CwNull, FullDaily),
      Obj(CwMissing, DailyMissing) }

FetchResults == {NoneData, EmptyData} \cup Readings

\* Every combination of present and absent fields, for one call of the
\* builder and the renderer.
Scalars == {Missing, Null, Num(245)}
Arrays == {AMissing, ANull, Arr(<<>>), Arr(<<Null>>), Arr(<<Num(270)>>)}
AllCw ==
    {CwMissing, CwNull} \cup
    { Cw(t, temp, wind, code) :
        t \in {TMissing, TNull, TStr(T1), TStr(TNoT)},
        temp \in Scalars,
        wind \in {Missing, Num(100)},
        code \in {Null, Num(61)} }
AllDaily ==
    {DailyMissing, DailyNull} \cup
    { Daily(mx, mn, pr) : mx \in Arrays, mn \in Arrays, pr \in Arrays }
AllReadings == { Obj(c, d) : c \in AllCw, d \in AllDaily }

\* weather.md before the first run: absent, empty, or a file that already
\* holds text (here a note that quotes the timestamp T1).
NoFile == [exists |-> FALSE, txt |-> ""]
SeedDoc == "Log of readings since 2024-01-01T12:00\n\n---\n\n"
InitialDocs == {NoFile, [exists |-> TRUE, txt |-> ""], [exists |-> TRUE, txt |-> SeedDoc]}

CodeInputs == {Null} \cup { Num(c) : c \in (0 - NegCodes)..(99 + OverCodes) }

\* ----------------------------------------------------------------- main()

\* data = fetch_weather(): a new run starts; the previous run has exited.
FetchWeather ==
    /\ pc \in {"idle", "done"}
    /\ runs < MaxRuns
    /\ \E d \in FetchResults : data' = d
    /\ pc' = "fetched"
    /\ runs' = runs + 1
    /\ exit' = "running"
    /\ key' = ""
    /\ entry' = ""
    /\ found' = FALSE
    /\ readOk' = TRUE
    /\ md0' = md
    /\ svg0' = svg
    /\ UNCHANGED <<md, svg, wcode, cls>>

NoData_Mut ==
    /\ pc = "fetched"
    /\ NotData(data)
    /\ pc' = "done"
    /\ exit' = "0"
    /\ UNCHANGED <<data, key, entry, found, readOk, md, svg, runs, md0, svg0, wcode, cls>>

\* if not data: return 2
NoData ==
    /\ pc = "fetched"
    /\ NotData(data)
    /\ pc' = "done"
    /\ exit' = "2"
    /\ UNCHANGED <<data, key, entry, found, readOk, md, svg, runs, md0, svg0, wcode, cls>>

\* key, entry = build_md_entry(data); if not key: return 2.
\* An exception raised by the builder ends the run.
BuildEntry ==
    /\ pc = "fetched"
    /\ ~NotData(data)
    /\ LET r == build_md_entry(data, Now(runs))
       IN IF r.fault
          THEN pc' = "done" /\ exit' = "exception" /\ UNCHANGED <<key, entry>>
          ELSE IF r.none \/ r.key = ""
          THEN pc' = "done" /\ exit' = "2" /\ UNCHANGED <<key, entry>>
          ELSE pc' = "built" /\ key' = r.key /\ entry' = r.entry /\ UNCHANGED exit
    /\ UNCHANGED <<data, found, readOk, md, svg, runs, md0, svg0, wcode, cls>>

\* already_exists(key); the read of an existing file may fail.
CheckExists ==
    /\ pc = "built"
    /\ \E ok \in (IF md.exists THEN BOOLEAN ELSE {TRUE}) :
        /\ readOk' = ok
        /\ found' = already_exists(md, key, ok)
    /\ pc' = "checked"
    /\ UNCHANGED <<data, key, entry, md, svg, exit, runs, md0, svg0, wcode, cls>>

\* the key was found: skip the append
SkipAppend ==
    /\ pc = "checked"
    /\ found
    /\ pc' = "logged"
    /\ UNCHANGED <<data, key, entry, found, readOk, md, svg, exit, runs, md0, svg0, wcode, cls>>

\* append_md(entry)
AppendMd ==
    /\ pc = "checked"
    /\ ~found
    /\ md' = append_md(md, entry)
    /\ pc' = "logged"
    /\ UNCHANGED <<data, key, entry, found, readOk, svg, exit, runs, md0, svg0, wcode, cls>>

\* build_svg(data); return 0.  An exception raised by the renderer ends the
\* run before the file is written.
BuildSvg ==
    /\ pc = "logged"
    /\ LET r == build_svg(data)
       IN IF r.fault
          THEN exit' = "exception" /\ UNCHANGED svg
          ELSE IF r.none
          THEN exit' = "0" /\ UNCHANGED svg
          ELSE exit' = "0" /\ svg' = [exists |-> TRUE, txt |-> r.txt]
    /\ pc' = "done"
    /\ UNCHANGED <<data, key, entry, found, readOk, md, runs, md0, svg0, wcode, cls>>

\* one call of the classifier
Classify ==
    /\ pc = "classify"
    /\ cls = <<"", "">>
    /\ cls' = weather_code_to_icon_and_text(wcode)
    /\ UNCHANGED <<pc, data, key, entry, found, readOk, md, svg, exit, runs, md0, svg0, wcode>>

\* --------------------------------------------------------- specifications

\* Sequential runs of main against the files on disk.
Init ==
    /\ pc = "idle"
    /\ data = NoneData
    /\ key = ""
    /\ entry = ""
    /\ found = FALSE
    /\ readOk = TRUE
    /\ md \in InitialDocs
    /\ svg = NoFile
    /\ exit = "running"
    /\ runs = 0
    /\ md0 = md
    /\ svg0 = svg
    /\ wcode = Null
    /\ cls = <<"", "">>

Next ==
    \/ FetchWeather
    \/ NoData
    \/ BuildEntry
    \/ CheckExists
    \/ SkipAppend
    \/ AppendMd
    \/ BuildSvg

Spec == Init /\ [][Next]_vars

\* One run of main on each reading of AllReadings, against no files.
InitBuild ==
    /\ pc = "fetched"
    /\ data \in {NoneData, EmptyData} \cup AllReadings
    /\ key = ""
    /\ entry = ""
    /\ found = FALSE
    /\ readOk = TRUE
    /\ md = NoFile
    /\ svg = NoFile
    /\ exit = "running"
    /\ runs = 1
    /\ md0 = md
    /\ svg0 = svg
    /\ wcode = Null
    /\ cls = <<"", "">>

NextBuild ==
    \/ NoData
    \/ BuildEntry
    \/ CheckExists
    \/ AppendMd
    \/ BuildSvg

SpecBuild == InitBuild /\ [][NextBuild]_vars

\* The classifier applied to each code of CodeInputs.
InitClassify ==
    /\ pc = "classify"
    /\ data = NoneData
    /\ key = ""
    /\ entry = ""
    /\ found = FALSE
    /\ readOk = TRUE
    /\ md = NoFile
    /\ svg = NoFile
    /\ exit = "running"
    /\ runs = 0
    /\ md0 = md
    /\ svg0 = svg
    /\ wcode \in CodeInputs
    /\ cls = <<"", "">>

NextClassify == Classify

SpecClassify == InitClassify /\ [][NextClassify]_vars

\* ------------------------------------------------------- claim vocabulary

\* number of places where p occurs in txt
Occurrences(txt, p) ==
    Cardinality({ i \in 1..(Len(txt) - Len(p) + 1) : SubSeq(txt, i, i + Len(p) - 1) = p })

\* first place where p occurs in txt, 0 when it does not occur
Pos(txt, p) ==
    IF Contains(txt, p)
    THEN CHOOSE i \in 1..(Len(txt) - Len(p) + 1) :
            /\ SubSeq(txt, i, i + Len(p) - 1) = p
            /\ \A j \in 1..(i - 1) : SubSeq(txt, j, j + Len(p) - 1) # p
    ELSE 0

StartsWith(s, p) == Len(p) <= Len(s) /\ SubSeq(s, 1, Len(p)) = p

EndsWith(s, p) == Len(p) <= Len(s) /\ SubSeq(s, Len(s) - Len(p) + 1, Len(s)) = p

\* the header line of the entry whose dedup key is k
HeaderOfKey(k) == Header(Slice(k, 0, 10), SliceFrom(k, 11))

\* a scalar field of current_weather holds a value
ScalarPresent(x) == x.k = "num"

\* daily.<name> holds an array whose first element is a value
ArrayPresent(arr) == arr.k = "arr" /\ Len(arr.a) >= 1 /\ arr.a[1].k = "num"

\* the reading is an object whose current_weather and daily are objects
\* (their fields may each be missing, null or, for the arrays, empty)
ReadingWithObjects == data.k = "obj" /\ data.cw.k = "obj" /\ data.daily.k = "obj"

MaxPresent == data.daily.k = "obj" /\ ArrayPresent(data.daily.temperature_2m_max)
MinPresent == data.daily.k = "obj" /\ ArrayPresent(data.daily.temperature_2m_min)
PrecipPresent == data.daily.k = "obj" /\ ArrayPresent(data.daily.precipitation_sum)
TempPresent == data.cw.k = "obj" /\ ScalarPresent(data.cw.temperature)
WindPresent == data.cw.k = "obj" /\ ScalarPresent(data.cw.windspeed)

NowMark == "\n\nNow: "
MaxMinMark == "\n\nMax/Min today: "
PrecipMark == "\n\nPrecipitation (today): "
WindMark == "\n\nWind speed: "
FooterMark == "\n\n" \o Footer

\* the label the claim gives each code
ClaimedLabel(c) ==
    IF c.k # "num" THEN "Unknown"
    ELSE IF c.v = 0 THEN "Clear sky"
    ELSE IF c.v \in 1..3 THEN "Partly cloudy"
    ELSE IF c.v \in 45..48 THEN "Fog"
    ELSE IF c.v \in (51..67) \cup (80..82) THEN "Rain"
    ELSE IF c.v \in (71..77) \cup (85..86) THEN "Snow"
    ELSE IF c.v \in 95..99 THEN "Thunderstorm"
    ELSE "Cloudy"

ClaimedIcon(label) ==
    CASE label = "Unknown" -> "[?]"
      [] label = "Clear sky" -> "[sun]"
      [] label = "Partly cloudy" -> "[sun-cloud]"
      [] label = "Fog" -> "[fog]"
      [] label = "Rain" -> "[rain]"
      [] label = "Snow" -> "[snow]"
      [] label = "Thunderstorm" -> "[storm]"
      [] OTHER -> "[cloud]"

\* ------------------------------------------------------------------ claims

\* C1: a run whose reading carries the timestamp of an entry that an
\* earlier run appended finds its dedup key in the document and performs no
\* append, so that no timestamp gets a second entry.  Stated for the runs
\* whose reading carries a time and whose read of the document succeeds.
\* The code violates it: the entry holds "<date> <time>", never the key
\* "<date>T<time>".
C1_SameTimestampNotAppended ==
    (/\ pc = "logged"
     /\ readOk
     /\ data.cw.k = "obj" /\ data.cw.time.k = "str"
     /\ Occurrences(md0.txt, HeaderOfKey(key)) >= 1)
        => (found /\ md = md0)

\* C2 as claimed: whenever the document already holds the dedup key as a
\* substring, the Log Writer step leaves the document unchanged.
C2_KeyPresentLeavesDocument ==
    (pc = "logged" /\ md0.exists /\ Contains(md0.txt, key)) => md = md0

\* C2 as amended: whenever the document already holds the dedup key as a
\* substring and the read of the document succeeds, the Log Writer step
\* leaves the document unchanged byte for byte.
C2_KeyPresentReadOkLeavesDocument ==
    (pc = "logged" /\ md0.exists /\ Contains(md0.txt, key) /\ readOk) => md = md0

C2_Witness ==
    pc = "logged" /\ md0.exists /\ Contains(md0.txt, key) /\ readOk /\ found /\ md = md0

\* C3: a run whose fetch yields no data returns exit code 2 and leaves both
\* the log document and the image as they were when the run started.
C3_FetchFailureTouchesNothing ==
    (pc = "done" /\ data.k \in {"none", "empty"})
        => (exit = "2" /\ md = md0 /\ svg = svg0)

C3_Witness ==
    pc = "done" /\ data = NoneData /\ exit = "2" /\ md0.exists /\ svg0.exists
    /\ md = md0 /\ svg = svg0

\* C4: the classifier gives every integer code, and an absent code, the
\* defined (icon, label) pair of the claim's table: 0 Clear sky, 1-3 Partly
\* cloudy, 45-48 Fog, 51-67 and 80-82 Rain, 71-77 and 85-86 Snow, 95-99
\* Thunderstorm, any other integer Cloudy, no code Unknown.
C4_ClassifierRanges ==
    cls # <<"", "">>
        => (cls[2] = ClaimedLabel(wcode) /\ cls[1] = ClaimedIcon(ClaimedLabel(wcode)))

C4_Witness ==
    /\ wcode = Num(99)
    /\ cls = <<"[storm]", "Thunderstorm">>

\* C5: the built block holds a "Max/Min today" line exactly when both the
\* daily maximum and the daily minimum are present.
C5_MaxMinBothOrNeither ==
    entry # "" => (Contains(entry, MaxMinMark) <=> (MaxPresent /\ MinPresent))

C5_Witness ==
    entry # "" /\ MaxPresent /\ ~MinPresent /\ ~Contains(entry, MaxMinMark)

\* C6: a run on a non-empty reading with any of its fields absent (key
\* missing, value null, daily array null or empty) does not fault: it
\* writes the image and returns exit code 0.  The code violates it.
C6_AbsenceTolerated ==
    (pc = "done" /\ ReadingWithObjects) => (exit = "0" /\ svg.exists)

\* C7: when the log document does not exist, the key is reported absent and
\* the file is created holding exactly the block followed by the fixed
\* delimiter, with nothing before or after.
C7_FirstAppendCreatesFile ==
    (pc = "logged" /\ ~md0.exists)
        => /\ ~found
           /\ md.exists
           /\ md.txt = entry
           /\ EndsWith(entry, Footer \o Delimiter)
           /\ Occurrences(md.txt, Delimiter) = 1

C7_Witness ==
    pc = "logged" /\ ~md0.exists /\ md.exists /\ md.txt = entry /\ entry # ""

\* C8: every run whose fetch returns data ends with exit code 0 and with the
\* image holding the rendering of that run's reading, whether the append
\* was performed or skipped.  The code violates it.
C8_ImageAlwaysRegenerated ==
    (pc = "done" /\ ~NotData(data))
        => (exit = "0" /\ svg.exists /\ svg.txt = build_svg(data).txt)

\* C9: a run either leaves the log document unchanged or extends it by
\* exactly that run's block; what the document held when the run started
\* stays a prefix of it.
C9_AppendOnly ==
    /\ StartsWith(md.txt, md0.txt)
    /\ md0.exists => md.exists
    /\ \/ md = md0
       \/ (md.exists /\ entry # "" /\ md.txt = md0.txt \o entry)

C9_Witness ==
    /\ pc = "done"
    /\ runs = 2
    /\ Len(md0.txt) > Len(SeedDoc)
    /\ entry # ""
    /\ md.txt = md0.txt \o entry

\* C10: the lines of the built block come in the fixed order, and each of
\* the "Now", precipitation and wind lines appears exactly once when its own
\* field is present and not at all when it is absent, whatever the other
\* fields are.  The code violates it.
C10_OptionalLinesIndependent ==
    entry # "" =>
        /\ Occurrences(entry, NowMark) = (IF TempPresent THEN 1 ELSE 0)
        /\ Occurrences(entry, PrecipMark) = (IF PrecipPresent THEN 1 ELSE 0)
        /\ Occurrences(entry, WindMark) = (IF WindPresent THEN 1 ELSE 0)
        /\ StartsWith(entry, "**")
        /\ \A a, b \in 1..5 :
            LET marks == <<NowMark, MaxMinMark, PrecipMark, WindMark, FooterMark>>
            IN (a < b /\ Contains(entry, marks[a]) /\ Contains(entry, marks[b]))
                   => Pos(entry, marks[a]) < Pos(entry, marks[b])

====
